---- MODULE Spec2Model ----
(***************************************************************************)
(* A model of the rate-limited retrieval and update loops of the           *)
(* nexa-github scripts:                                                    *)
(*   - list_issues.get_project_items  (cursor pagination, filter, cache)   *)
(*   - list_issues.wait_with_backoff / handle_rate_limit_error             *)
(*   - list_issues.get_status_field / update_item_status                   *)
(*   - migrate.exponential_backoff / migrate_issues                        *)
(* Each script is a sequential procedure; a step of the model is one       *)
(* upstream request together with everything the code does with its        *)
(* response, or the end of one blocking sleep.                             *)
(***************************************************************************)
EXTENDS Integers, Sequences, FiniteSets, TLC

(***************************************************************************)
(* Program constants                                                       *)
(***************************************************************************)
MAX_RETRIES == 10
INITIAL_WAIT == 3600
MAX_WAIT == 21600
\* BACKOFF_FACTOR = 1.5, kept as the exact fraction BACKOFF_NUM / BACKOFF_DEN
BACKOFF_NUM == 3
BACKOFF_DEN == 2
\* migrate.exponential_backoff: min(1 * (2 ** attempt), max_wait_time)
max_wait_time == 86400

(***************************************************************************)
(* Bounds of the model                                                     *)
(***************************************************************************)
\* longest upstream item sequence
MaxUpstream == 3
\* consecutive rate-limit answers the upstream may give to one page request
MaxFail == 12
\* longest list of JIRA issues
MaxIssues == 3
\* largest retry_count given to wait_with_backoff on its own
MaxRetryArg == 11
\* largest attempt given to exponential_backoff on its own
MaxAttemptArg == 18

(***************************************************************************)
(* Upstream errors.  The text of an error is one of a few representative   *)
(* strings; the three substring tests the code performs are tabulated.     *)
(***************************************************************************)
TXT_BOTH == "{'type': 'RATE_LIMITED', 'message': 'API rate limit exceeded'}"
TXT_TYPE == "{'type': 'RATE_LIMITED'}"
TXT_MSG == "API Rate Limit Exceeded for installation"
TXT_SECONDARY == "You have exceeded a secondary rate limit"
TXT_OTHER == "Could not resolve to a node"

ErrorTexts == {TXT_BOTH, TXT_TYPE, TXT_MSG, TXT_SECONDARY, TXT_OTHER}

\* 'RATE_LIMITED' in str(e)
Contains_RATE_LIMITED(text) == text \in {TXT_BOTH, TXT_TYPE}

\* 'rate limit exceeded' in str(e).lower()
LowerContains_rate_limit_exceeded(text) == text \in {TXT_BOTH, TXT_MSG}

\* "rate limit" in str(e).lower()
LowerContains_rate_limit(text) == text \in {TXT_BOTH, TXT_MSG, TXT_SECONDARY}

\* exceptions client.execute can raise: a TransportQueryError carrying the
\* upstream error list, or any other exception (transport, protocol)
Errors ==
    [exc : {"TransportQueryError"}, text : ErrorTexts \ {TXT_SECONDARY}]
        \cup [exc : {"Exception"}, text : {TXT_BOTH, TXT_OTHER}]

(***************************************************************************)
(* Backoff durations (pure functions)                                      *)
(***************************************************************************)
RECURSIVE Pow(_, _)
Pow(b, n) == IF n = 0 THEN 1 ELSE b * Pow(b, n - 1)

Min(a, b) == IF a <= b THEN a ELSE b

\* wait_time = min(INITIAL_WAIT * (BACKOFF_FACTOR ** retry_count), MAX_WAIT)
\* INITIAL_WAIT * 1.5^n is compared with MAX_WAIT as the fraction
\* INITIAL_WAIT * 3^n / 2^n; below the cap (n <= 4) the quotient is exact
\* because 2^4 divides INITIAL_WAIT.
\* variant of wait_with_backoff: the min with MAX_WAIT is missing
wait_with_backoff_nocap(retry_count) ==
    (INITIAL_WAIT * Pow(BACKOFF_NUM, retry_count)) \div Pow(BACKOFF_DEN, retry_count)

wait_with_backoff(retry_count) ==
    IF INITIAL_WAIT * Pow(BACKOFF_NUM, retry_count)
          >= MAX_WAIT * Pow(BACKOFF_DEN, retry_count)
    THEN MAX_WAIT
    ELSE (INITIAL_WAIT * Pow(BACKOFF_NUM, retry_count)) \div Pow(BACKOFF_DEN, retry_count)

\* wait_time = min(1 * (2 ** attempt), max_wait_time)
exponential_backoff(attempt) == Min(1 * Pow(2, attempt), max_wait_time)

(***************************************************************************)
(* Project items as get_project_items sees them                            *)
(***************************************************************************)
\* content: "none" is a null or empty content; status: "null" is an item with
\* no Status value (fieldValueByName returns null); body: whether the body
\* contains the marker text
Catalogue ==
    << [id |-> 1, content |-> "some", status |-> "Todo", body |-> "marker"],
       [id |-> 2, content |-> "none", status |-> "null", body |-> "plain"],
       [id |-> 3, content |-> "some", status |-> "Done", body |-> "marker"],
       [id |-> 4, content |-> "some", status |-> "null", body |-> "marker"],
       [id |-> 5, content |-> "some", status |-> "Todo", body |-> "plain"],
       [id |-> 6, content |-> "some", status |-> "Todo", body |-> "marker"] >>

Items == {Catalogue[i] : i \in 1..Len(Catalogue)}

RECURSIVE Flatten(_)
Flatten(ps) == IF ps = <<>> THEN <<>> ELSE Head(ps) \o Flatten(Tail(ps))

Range(s) == {s[i] : i \in 1..Len(s)}

NoDup(s) == \A i, j \in 1..Len(s) : i # j => s[i] # s[j]

\* the sequences of at most n catalogue items taken from position i on, in
\* catalogue order (so no item occurs twice)
RECURSIVE ItemSeqs(_, _)
ItemSeqs(i, n) ==
    IF n = 0 \/ i > Len(Catalogue) THEN {<<>>}
    ELSE ItemSeqs(i + 1, n) \cup
         {<<Catalogue[i]>> \o s : s \in ItemSeqs(i + 1, n - 1)}

\* every way of cutting s into consecutive non-empty pages; the empty
\* collection is served as one empty page
RECURSIVE Splits(_)
Splits(s) ==
    IF s = <<>> THEN {<< <<>> >>}
    ELSE {<<s>>} \cup
         UNION {{<<SubSeq(s, 1, k)>> \o rest : rest \in Splits(SubSeq(s, k + 1, Len(s)))}
                : k \in 1..(Len(s) - 1)}

Upstreams == UNION {Splits(s) : s \in ItemSeqs(1, MaxUpstream)}

\* the item loop of get_project_items: the items of one page that are kept
RECURSIVE filtered_items(_)
filtered_items(items) ==
    IF items = <<>> THEN <<>>
    ELSE LET item == Head(items)
         IN  IF item.content = "none" THEN filtered_items(Tail(items))
             ELSE IF item.status # "Todo" THEN filtered_items(Tail(items))
             ELSE IF item.body # "marker" THEN filtered_items(Tail(items))
             ELSE <<item>> \o filtered_items(Tail(items))

\* item.get('status', {}).get('name') raises AttributeError when the item has
\* content and its status is null
raises_AttributeError(items) ==
    \E i \in 1..Len(items) : items[i].content # "none" /\ items[i].status = "null"


(***************************************************************************)
(* State                                                                   *)
(***************************************************************************)
VARIABLES
    \* --- list_issues.get_project_items ---
    pages,          \* upstream collection, cut into pages (fixed per behaviour)
    cache_file,     \* CACHE_FILE: [exists, data]
    pc,             \* "idle", "loop" (about to request a page), "waiting" (asleep)
    force_refresh,  \* argument of the running call
    all_items,      \* accumulated items
    has_next_page,
    after,          \* cursor: number of pages already consumed (0 is None)
    requested,      \* the running call has issued a network request
    rl_seen,        \* the running call has met a rate-limit error
    consec_fails,   \* consecutive rate-limit errors of the current page request
    last_wait,      \* duration of the last sleep of the running call
    last_error,     \* the last exception client.execute raised in the running call
    cache_before,   \* cache_file when the running call started
    hist,           \* finished calls: a first call and the call after it
    \* --- list_issues.update_item_status / get_status_field ---
    u_pc,           \* "idle", "status_field", "status_field_wait", "mutation",
                    \* "mutation_wait", "done"
    project_field,  \* what the Status field query answers for the project
    retry_count,    \* retry_count of update_item_status
    sf_retry_count, \* retry_count of get_status_field
    u_result,       \* "none", "True", "False"
    u_raised,       \* an exception left update_item_status
    mutation_fails, \* rate-limit failures of the update mutation so far
    mutations_sent, \* update mutations sent so far
    u_last_wait,    \* duration of the last sleep, 0 before the first
    \* --- migrate.migrate_issues ---
    issues,         \* JIRA issue keys, in query order
    project_items,  \* items of the project when the run starts
    existing_items, \* what get_existing_items returned
    m_pc,           \* "loop", "waiting", "finished", "exit1"
    m_i,            \* position of the for loop in issues
    attempt,
    created,        \* keys of the draft items created by this run, in order
    m_last_wait,
    rl_skipped,     \* positions whose creation failed with a rate-limit error
    \* --- backoff durations ---
    b_retry_count,  \* next argument of wait_with_backoff
    b_wait,         \* last duration it computed, -1 before the first
    b_prev_wait,    \* the duration before that
    b_attempt,      \* next argument of exponential_backoff
    b_mwait,
    b_mprev_wait,
    \* --- the batch loops of list_issues.main and update_status.main ---
    script,         \* which script runs: "list_issues" or "update_status"
    token_set,      \* GITHUB_MIGRATION_TOKEN is set in the environment
    targets_file,   \* update_targets.json exists
    n_targets,      \* len(items) / len(targets)
    bt_pc,          \* position of main
    t_i,            \* position of the for loop, from 1
    calls,          \* positions handed to update_item_status, in call order
    returns,        \* what each of those calls returned
    reports,        \* the line printed for each item
    success_count,
    upstream_requests,  \* a request has been sent to the API
    \* --- list_repos.get_accessible_repositories ---
    viewer_total,   \* upstream: number of repositories of the viewer
    org_totals,     \* upstream: number of repositories of each organization
    r_pc,
    all_repos,
    r_has_next_page,
    end_cursor,     \* offset of the next page, -1 for None
    r_result,       \* the list returned
    r_error,        \* the exception the request raised, if one did
    \* --- migrate.update_item_status ---
    jira_status,    \* jira_issue.fields.status.name
    options,        \* names of status_field['options'], in order
    s_pc,
    github_status,
    s_mutation,     \* name of the option the mutation was sent with
    \* --- migrate.get_jira_issues ---
    j_total,        \* upstream: number of issues matching the query
    j_pc,
    start_at,
    all_issues,
    j_requests,     \* the startAt of every search_issues call, in order
    \* --- branch_cleaner cleanup and cleanup_branches.py ---
    c_script,       \* "branch_cleaner" or "cleanup_branches"
    execute,        \* --execute was given
    days,
    repos_info,     \* content of the input JSON file
    c_pc,
    c_r,            \* position in repos_info, from 1
    c_b,            \* position in the repository's devin_branches, from 1
    c_log,          \* one record per delete_old_branch call
    \* --- cleanup_devin_branches.py ---
    d_repos,        \* upstream: the branches of every accessible repository
    d_pc,
    d_r,            \* position in repos, from 1
    d_b,            \* position in the repository's branches, from 1
    d_log,          \* one record per branch that reached the date test
    d_listing_failed    \* repositories whose processing raised

fetchVars == <<pages, cache_file, pc, force_refresh, all_items, has_next_page,
               after, requested, rl_seen, consec_fails, last_wait,
               last_error, cache_before, hist>>

updateVars == <<u_pc, project_field, retry_count, sf_retry_count, u_result,
                u_raised, mutation_fails, mutations_sent, u_last_wait>>

migrateVars == <<issues, project_items, existing_items, m_pc, m_i, attempt, created,
                 m_last_wait, rl_skipped>>

backoffVars == <<b_retry_count, b_wait, b_prev_wait, b_attempt, b_mwait,
                 b_mprev_wait>>

batchVars == <<script, token_set, targets_file, n_targets, bt_pc, t_i, calls,
               returns, reports, success_count, upstream_requests>>

reposVars == <<viewer_total, org_totals, r_pc, all_repos, r_has_next_page,
               end_cursor, r_result, r_error>>

statusVars == <<jira_status, options, s_pc, github_status, s_mutation>>

jiraVars == <<j_total, j_pc, start_at, all_issues, j_requests>>

cleanVars == <<c_script, execute, days, repos_info, c_pc, c_r, c_b, c_log>>

devinVars == <<d_repos, d_pc, d_r, d_b, d_log, d_listing_failed>>

\* the scripts modelled after the first six
moreVars == <<statusVars, jiraVars, cleanVars, devinVars>>

vars == <<fetchVars, updateVars, migrateVars, backoffVars, batchVars,
          reposVars, moreVars>>

NoError == [exc |-> "none", text |-> ""]

NoFile == [exists |-> FALSE, data |-> <<>>]

File(data) == [exists |-> TRUE, data |-> data]

\* contents CACHE_FILE can have before the first call
PriorCaches == {NoFile, File(<<>>), File(<<Catalogue[6]>>)}

\* load_cache(): the file's list, or None when there is no file
load_cache == cache_file

\* `if cached_data:` -- None and the empty list are both falsy
cached_data_truthy(cached_data) == cached_data.exists /\ cached_data.data # <<>>

\* save_cache(data): the file is replaced by the dumped list
save_cache(data) == File(data)

\* the except clause of the page loop: TransportQueryError whose lowered text
\* contains 'rate limit exceeded'
page_error_is_rate_limit(e) ==
    e.exc = "TransportQueryError" /\ LowerContains_rate_limit_exceeded(e.text)

\* the argument get_project_items passes to wait_with_backoff
page_backoff_arg(fails) == 0

CallRecord(src, outcome, result, cacheAfter) ==
    [force_refresh |-> force_refresh, source |-> src, outcome |-> outcome,
     result |-> result, requested |-> requested, rate_limited |-> rl_seen,
     error |-> NoError,
     cache_before |-> cache_before, cache_after |-> cacheAfter]

FetchInit ==
    /\ pages \in Upstreams
    /\ cache_file \in PriorCaches
    /\ pc = "idle"
    /\ force_refresh = FALSE
    /\ all_items = <<>>
    /\ has_next_page = FALSE
    /\ after = 0
    /\ requested = FALSE
    /\ rl_seen = FALSE
    /\ consec_fails = 0
    /\ last_wait = 0
    /\ last_error = NoError
    /\ cache_before = cache_file
    /\ hist = <<>>

\* the running call ends: its record is appended and the locals are dropped
EndCall(rec) ==
    /\ hist' = Append(hist, rec)
    /\ pc' = "idle"
    /\ force_refresh' = FALSE
    /\ all_items' = <<>>
    /\ has_next_page' = FALSE
    /\ after' = 0
    /\ requested' = FALSE
    /\ rl_seen' = FALSE
    /\ consec_fails' = 0
    /\ last_wait' = 0
    /\ last_error' = NoError

\* get_project_items(project_id, force_refresh) up to the first page request
get_project_items(fr) ==
    /\ UNCHANGED <<updateVars, migrateVars, backoffVars, batchVars,
                 reposVars, moreVars>>
    /\ pc = "idle"
    /\ Len(hist) < 2
    /\ cache_before' = cache_file
    /\ UNCHANGED <<pages, cache_file>>
    /\ IF ~fr /\ cached_data_truthy(load_cache)
       THEN /\ hist' = Append(hist,
                   [force_refresh |-> fr, source |-> "cache",
                    outcome |-> "returned", result |-> load_cache.data,
                    requested |-> FALSE, rate_limited |-> FALSE,
                    error |-> NoError,
                    cache_before |-> cache_file, cache_after |-> cache_file])
            /\ UNCHANGED <<pc, force_refresh, all_items, has_next_page, after,
                           requested, rl_seen, consec_fails, last_wait,
                           last_error>>
       ELSE /\ pc' = "loop"
            /\ force_refresh' = fr
            /\ all_items' = <<>>
            /\ has_next_page' = TRUE
            /\ after' = 0
            /\ UNCHANGED <<requested, rl_seen, consec_fails, last_wait,
                           last_error, hist>>

Call == \E fr \in BOOLEAN : get_project_items(fr)

\* variant of PageOk: the cache is saved after every page
PageOk_SavesEachPage ==
    /\ UNCHANGED <<updateVars, migrateVars, backoffVars, batchVars,
                 reposVars, moreVars>>
    /\ pc = "loop"
    /\ has_next_page
    /\ LET items == pages[after + 1]
           more == after + 1 < Len(pages)
           acc == all_items \o filtered_items(items)
       IN  IF raises_AttributeError(items)
           THEN /\ EndCall([CallRecord("fetch", "AttributeError", <<>>, cache_file)
                               EXCEPT !.requested = TRUE])
                /\ UNCHANGED <<pages, cache_file, cache_before>>
           ELSE IF more
           THEN /\ all_items' = acc
                /\ has_next_page' = TRUE
                /\ after' = after + 1
                /\ requested' = TRUE
                /\ consec_fails' = 0
                /\ cache_file' = save_cache(acc)
                /\ UNCHANGED <<pages, pc, force_refresh, rl_seen,
                               last_wait, last_error, cache_before, hist>>
           ELSE /\ cache_file' = save_cache(acc)
                /\ EndCall([CallRecord("fetch", "returned", acc, save_cache(acc))
                               EXCEPT !.requested = TRUE])
                /\ UNCHANGED <<pages, cache_before>>

\* client.execute succeeds: filter the page, accumulate, follow pageInfo;
\* after the last page save the cache and return
PageOk ==
    /\ UNCHANGED <<updateVars, migrateVars, backoffVars, batchVars,
                 reposVars, moreVars>>
    /\ pc = "loop"
    /\ has_next_page
    /\ LET items == pages[after + 1]
           more == after + 1 < Len(pages)
           acc == all_items \o filtered_items(items)
       IN  IF raises_AttributeError(items)
           THEN /\ EndCall([CallRecord("fetch", "AttributeError", <<>>, cache_file)
                               EXCEPT !.requested = TRUE])
                /\ UNCHANGED <<pages, cache_file, cache_before>>
           ELSE IF more
           THEN /\ all_items' = acc
                /\ has_next_page' = TRUE
                /\ after' = after + 1
                /\ requested' = TRUE
                /\ consec_fails' = 0
                /\ UNCHANGED <<pages, cache_file, pc, force_refresh, rl_seen,
                               last_wait, last_error, cache_before, hist>>
           ELSE /\ cache_file' = save_cache(acc)
                /\ EndCall([CallRecord("fetch", "returned", acc, save_cache(acc))
                               EXCEPT !.requested = TRUE])
                /\ UNCHANGED <<pages, cache_before>>

\* variant of PageRateLimited: the failed page is given up and the cursor
\* moves on
PageRateLimited_SkipsPage ==
    /\ UNCHANGED <<updateVars, migrateVars, backoffVars, batchVars,
                 reposVars, moreVars>>
    /\ pc = "loop"
    /\ has_next_page
    /\ consec_fails < MaxFail
    /\ \E e \in Errors :
          /\ page_error_is_rate_limit(e)
          /\ pc' = "waiting"
          /\ last_wait' = wait_with_backoff(page_backoff_arg(consec_fails))
          /\ consec_fails' = consec_fails + 1
          /\ requested' = TRUE
          /\ rl_seen' = TRUE
          /\ last_error' = e
          /\ after' = IF after + 1 < Len(pages) THEN after + 1 ELSE after
          /\ UNCHANGED <<pages, cache_file, force_refresh, all_items,
                         has_next_page, cache_before, hist>>

\* client.execute raises an error the except clause takes for a rate limit:
\* wait_with_backoff(0), then the loop runs again
PageRateLimited ==
    /\ UNCHANGED <<updateVars, migrateVars, backoffVars, batchVars,
                 reposVars, moreVars>>
    /\ pc = "loop"
    /\ has_next_page
    /\ consec_fails < MaxFail
    /\ \E e \in Errors :
          /\ page_error_is_rate_limit(e)
          /\ pc' = "waiting"
          /\ last_wait' = wait_with_backoff(page_backoff_arg(consec_fails))
          /\ consec_fails' = consec_fails + 1
          /\ requested' = TRUE
          /\ rl_seen' = TRUE
          /\ last_error' = e
          /\ UNCHANGED <<pages, cache_file, force_refresh, all_items,
                         has_next_page, after, cache_before, hist>>

\* variant of FetchWaitDone: the retry starts again from the first page and
\* keeps what was accumulated
FetchWaitDone_Restarts ==
    /\ UNCHANGED <<updateVars, migrateVars, backoffVars, batchVars,
                 reposVars, moreVars>>
    /\ pc = "waiting"
    /\ pc' = "loop"
    /\ last_error' = NoError
    /\ after' = 0
    /\ UNCHANGED <<pages, cache_file, force_refresh, all_items, has_next_page,
                   requested, rl_seen, consec_fails, last_wait,
                   cache_before, hist>>

\* time.sleep(wait_time) returns; the except clause ends (e is unbound) and
\* the loop condition is tested again
FetchWaitDone ==
    /\ UNCHANGED <<updateVars, migrateVars, backoffVars, batchVars,
                 reposVars, moreVars>>
    /\ pc = "waiting"
    /\ pc' = "loop"
    /\ last_error' = NoError
    /\ UNCHANGED <<pages, cache_file, force_refresh, all_items, has_next_page,
                   after, requested, rl_seen, consec_fails, last_wait,
                   cache_before, hist>>

\* variant of PageFatal: the items accumulated so far are saved before the
\* exception leaves
PageFatal_WritesCache ==
    /\ UNCHANGED <<updateVars, migrateVars, backoffVars, batchVars,
                 reposVars, moreVars>>
    /\ pc = "loop"
    /\ has_next_page
    /\ \E e \in Errors :
          /\ ~page_error_is_rate_limit(e)
          /\ cache_file' = save_cache(all_items)
          /\ EndCall([CallRecord("fetch", e.exc, <<>>, save_cache(all_items))
                         EXCEPT !.requested = TRUE, !.error = e])
          /\ UNCHANGED <<pages, cache_before>>

\* client.execute raises anything else: the exception leaves get_project_items
PageFatal ==
    /\ UNCHANGED <<updateVars, migrateVars, backoffVars, batchVars,
                 reposVars, moreVars>>
    /\ pc = "loop"
    /\ has_next_page
    /\ \E e \in Errors :
          /\ ~page_error_is_rate_limit(e)
          /\ EndCall([CallRecord("fetch", e.exc, <<>>, cache_file)
                         EXCEPT !.requested = TRUE, !.error = e])
          /\ UNCHANGED <<pages, cache_file, cache_before>>

\* the process is killed during pagination or during a sleep
Terminate ==
    /\ UNCHANGED <<updateVars, migrateVars, backoffVars, batchVars,
                 reposVars, moreVars>>
    /\ pc \in {"loop", "waiting"}
    /\ EndCall(CallRecord("fetch", "terminated", <<>>, cache_file))
    /\ UNCHANGED <<pages, cache_file, cache_before>>


(***************************************************************************)
(* list_issues.update_item_status, with get_status_field and               *)
(* handle_rate_limit_error                                                 *)
(***************************************************************************)
\* handle_rate_limit_error(e, retry_count): True after a backoff wait, False
\* when the text is no rate limit or the ceiling is reached
handle_rate_limit_error(e, rc) ==
    Contains_RATE_LIMITED(e.text) /\ rc < MAX_RETRIES

\* `while retry_count < MAX_RETRIES` of get_status_field
status_field_loop(rc) == rc < MAX_RETRIES

\* variant of update_loop: one iteration more
update_loop_inclusive(rc) == rc <= MAX_RETRIES

\* `while retry_count < MAX_RETRIES` of update_item_status
update_loop(rc) == rc < MAX_RETRIES

\* answers to the Status field query: no field, a field without an option
\* named status_value, a field with it
StatusFields == {"null", "no_option", "with_option"}

UpdateInit ==
    /\ u_pc = "idle"
    /\ project_field \in StatusFields
    /\ retry_count = 0
    /\ sf_retry_count = 0
    /\ u_result = "none"
    /\ u_raised = FALSE
    /\ mutation_fails = 0
    /\ mutations_sent = 0
    /\ u_last_wait = 0

\* update_item_status returns
UpdateReturn(value) ==
    /\ u_pc' = "done"
    /\ u_result' = value

\* the top of the while loop of update_item_status with retry_count rc: the
\* next iteration starts by calling get_status_field, or the loop is left
UpdateIterate(rc) ==
    IF update_loop(rc)
    THEN /\ u_pc' = "status_field"
         /\ sf_retry_count' = 0
         /\ u_result' = u_result
    ELSE /\ UpdateReturn("False")
         /\ sf_retry_count' = sf_retry_count

\* update_item_status(project_id, item_id, status_value) is called
UpdateStart ==
    /\ u_pc = "idle"
    /\ retry_count' = 0
    /\ UpdateIterate(0)
    /\ UNCHANGED <<project_field, u_raised, mutation_fails, mutations_sent,
                   u_last_wait>>
    /\ UNCHANGED <<fetchVars, migrateVars, backoffVars, batchVars,
                 reposVars, moreVars>>

\* get_status_field: the query succeeds and the field is returned; the caller
\* gives up without a field or without the option, else goes on to the mutation
StatusFieldOk ==
    /\ u_pc = "status_field"
    /\ IF project_field = "with_option"
       THEN u_pc' = "mutation" /\ u_result' = u_result
       ELSE UpdateReturn("False")
    /\ UNCHANGED <<project_field, retry_count, sf_retry_count, u_raised,
                   mutation_fails, mutations_sent, u_last_wait>>
    /\ UNCHANGED <<fetchVars, migrateVars, backoffVars, batchVars,
                 reposVars, moreVars>>

\* get_status_field: the query raises; a TransportQueryError that
\* handle_rate_limit_error accepts is waited out, anything else returns None
\* and the caller returns False
StatusFieldError ==
    /\ u_pc = "status_field"
    /\ \E e \in Errors :
          IF e.exc = "TransportQueryError" /\ handle_rate_limit_error(e, sf_retry_count)
          THEN /\ u_pc' = "status_field_wait"
               /\ u_last_wait' = wait_with_backoff(sf_retry_count)
               /\ u_result' = u_result
          ELSE /\ UpdateReturn("False")
               /\ u_last_wait' = u_last_wait
    /\ UNCHANGED <<project_field, retry_count, sf_retry_count, u_raised,
                   mutation_fails, mutations_sent>>
    /\ UNCHANGED <<fetchVars, migrateVars, backoffVars, batchVars,
                 reposVars, moreVars>>

\* get_status_field: the sleep ends, retry_count += 1, continue
StatusFieldWaitDone ==
    /\ u_pc = "status_field_wait"
    /\ sf_retry_count' = sf_retry_count + 1
    /\ IF status_field_loop(sf_retry_count + 1)
       THEN u_pc' = "status_field" /\ u_result' = u_result
       ELSE UpdateReturn("False")
    /\ UNCHANGED <<project_field, retry_count, u_raised, mutation_fails,
                   mutations_sent, u_last_wait>>
    /\ UNCHANGED <<fetchVars, migrateVars, backoffVars, batchVars,
                 reposVars, moreVars>>

\* the mutation succeeds: return True
MutationOk ==
    /\ u_pc = "mutation"
    /\ mutations_sent' = mutations_sent + 1
    /\ UpdateReturn("True")
    /\ UNCHANGED <<project_field, retry_count, sf_retry_count, u_raised,
                   mutation_fails, u_last_wait>>
    /\ UNCHANGED <<fetchVars, migrateVars, backoffVars, batchVars,
                 reposVars, moreVars>>

\* the mutation raises: both except clauses of update_item_status
MutationError ==
    /\ u_pc = "mutation"
    /\ mutations_sent' = mutations_sent + 1
    /\ \E e \in Errors :
          /\ mutation_fails' =
                IF e.exc = "TransportQueryError" /\ Contains_RATE_LIMITED(e.text)
                THEN mutation_fails + 1 ELSE mutation_fails
          /\ IF e.exc = "TransportQueryError" /\ handle_rate_limit_error(e, retry_count)
             THEN /\ u_pc' = "mutation_wait"
                  /\ u_last_wait' = wait_with_backoff(retry_count)
                  /\ u_result' = u_result
             ELSE /\ UpdateReturn("False")
                  /\ u_last_wait' = u_last_wait
    /\ UNCHANGED <<project_field, retry_count, sf_retry_count, u_raised>>
    /\ UNCHANGED <<fetchVars, migrateVars, backoffVars, batchVars,
                 reposVars, moreVars>>

\* update_item_status: the sleep ends, retry_count += 1, continue
MutationWaitDone ==
    /\ u_pc = "mutation_wait"
    /\ retry_count' = retry_count + 1
    /\ UpdateIterate(retry_count + 1)
    /\ UNCHANGED <<project_field, u_raised, mutation_fails, mutations_sent,
                   u_last_wait>>
    /\ UNCHANGED <<fetchVars, migrateVars, backoffVars, batchVars,
                 reposVars, moreVars>>


(***************************************************************************)
(* migrate.migrate_issues, from `attempt = 0` on                           *)
(***************************************************************************)
\* issue keys PROJ-1, PROJ-12, PROJ-2, as the digits after the prefix
IssueKeys == {<<1>>, <<1, 2>>, <<2>>}

IsPrefix(a, b) == Len(a) <= Len(b) /\ SubSeq(b, 1, Len(a)) = a

\* a project item: a draft created by an earlier migration of `key`, or an
\* item without body
MigratedItem(key) == [body |-> "migrated", key |-> key]

EmptyItem == [body |-> "none", key |-> <<>>]

\* f"JIRA Issue {jira_id}" in item['content']['body']: the body of a migrated
\* draft ends with "JIRA Issue <key>", so the test holds when jira_id is a
\* prefix of that key
body_contains_key(item, jira_id) ==
    item.body = "migrated" /\ IsPrefix(jira_id, item.key)

is_issue_already_migrated(jira_id, items) ==
    \E n \in 1..Len(items) :
        /\ items[n].body # "none"
        /\ body_contains_key(items[n], jira_id)

\* the except clause of the issue loop
migrate_error_is_rate_limit(text) == LowerContains_rate_limit(text)

\* the attempt value passed to exponential_backoff
migrate_backoff_arg(att) == att + 1

RECURSIVE KeySeqs(_)
KeySeqs(n) ==
    IF n = 0 THEN {<<>>}
    ELSE LET shorter == KeySeqs(n - 1)
         IN  shorter \cup
             {Append(t, k) : t \in {u \in shorter : Len(u) = n - 1},
                             k \in IssueKeys}

ExistingItemLists ==
    {<<>>, <<EmptyItem>>} \cup {<<MigratedItem(k)>> : k \in IssueKeys}
        \cup {<<EmptyItem, MigratedItem(k)>> : k \in IssueKeys}

\* 'first' of the items connection get_existing_items asks for (100 in the
\* script), scaled
ItemsFirst == 2

\* the project's items: the lists above behind up to ItemsFirst - 1 items
\* without body
ProjectItemLists ==
    {[k \in 1..n |-> EmptyItem] \o l :
        n \in 0..(ItemsFirst - 1), l \in ExistingItemLists}

\* get_existing_items: items(first: 100) of one request, no further page
get_existing_items(items) ==
    SubSeq(items, 1, Min(Len(items), ItemsFirst))

MigrateInit ==
    /\ issues \in {t \in KeySeqs(MaxIssues) : NoDup(t)}
    /\ project_items \in ProjectItemLists
    /\ existing_items = get_existing_items(project_items)
    /\ m_pc = "loop"
    /\ m_i = 1
    /\ attempt = 0
    /\ created = <<>>
    /\ m_last_wait = 0
    /\ rl_skipped = {}

\* is_issue_already_migrated is true: continue
MigrateSkip ==
    /\ m_pc = "loop"
    /\ m_i <= Len(issues)
    /\ is_issue_already_migrated(issues[m_i], existing_items)
    /\ m_i' = m_i + 1
    /\ UNCHANGED <<issues, project_items, existing_items, m_pc, attempt, created, m_last_wait,
                   rl_skipped>>
    /\ UNCHANGED <<fetchVars, updateVars, backoffVars, batchVars,
                 reposVars, moreVars>>

\* create_github_issue returns: the draft exists, attempt = 0
CreateOk ==
    /\ m_pc = "loop"
    /\ m_i <= Len(issues)
    /\ ~is_issue_already_migrated(issues[m_i], existing_items)
    /\ created' = Append(created, issues[m_i])
    /\ attempt' = 0
    /\ m_i' = m_i + 1
    /\ UNCHANGED <<issues, project_items, existing_items, m_pc, m_last_wait, rl_skipped>>
    /\ UNCHANGED <<fetchVars, updateVars, backoffVars, batchVars,
                 reposVars, moreVars>>

\* create_project_item raises an error whose text names a rate limit:
\* attempt += 1, exponential_backoff(attempt) sleeps
CreateRateLimited ==
    /\ m_pc = "loop"
    /\ m_i <= Len(issues)
    /\ ~is_issue_already_migrated(issues[m_i], existing_items)
    /\ \E text \in ErrorTexts :
          /\ migrate_error_is_rate_limit(text)
          /\ attempt' = attempt + 1
          /\ m_last_wait' = exponential_backoff(migrate_backoff_arg(attempt))
          /\ m_pc' = "waiting"
          /\ rl_skipped' = rl_skipped \cup {m_i}
    /\ UNCHANGED <<issues, project_items, existing_items, m_i, created>>
    /\ UNCHANGED <<fetchVars, updateVars, backoffVars, batchVars,
                 reposVars, moreVars>>

\* the sleep ends: `continue` takes the for loop to the next issue
MigrateWaitDone ==
    /\ m_pc = "waiting"
    /\ m_pc' = "loop"
    /\ m_i' = m_i + 1
    /\ UNCHANGED <<issues, project_items, existing_items, attempt, created, m_last_wait,
                   rl_skipped>>
    /\ UNCHANGED <<fetchVars, updateVars, backoffVars, batchVars,
                 reposVars, moreVars>>

\* create_github_issue raises any other error, before or after the draft was
\* created: it is raised again, caught by the outer clause, exit(1)
CreateFatal ==
    /\ m_pc = "loop"
    /\ m_i <= Len(issues)
    /\ ~is_issue_already_migrated(issues[m_i], existing_items)
    /\ \E text \in ErrorTexts, item_created \in BOOLEAN :
          /\ ~migrate_error_is_rate_limit(text)
          /\ created' = IF item_created THEN Append(created, issues[m_i])
                        ELSE created
    /\ m_pc' = "exit1"
    /\ UNCHANGED <<issues, project_items, existing_items, m_i, attempt, m_last_wait, rl_skipped>>
    /\ UNCHANGED <<fetchVars, updateVars, backoffVars, batchVars,
                 reposVars, moreVars>>

\* the for loop is exhausted: the completion message is printed
MigrateFinish ==
    /\ m_pc = "loop"
    /\ m_i > Len(issues)
    /\ m_pc' = "finished"
    /\ UNCHANGED <<issues, project_items, existing_items, m_i, attempt, created, m_last_wait,
                   rl_skipped>>
    /\ UNCHANGED <<fetchVars, updateVars, backoffVars, batchVars,
                 reposVars, moreVars>>


(***************************************************************************)
(* The two backoff functions on their own: a run of consecutive failures   *)
(* starting at any count                                                   *)
(***************************************************************************)
BackoffInit ==
    /\ b_retry_count \in 0..MaxRetryArg
    /\ b_wait = -1
    /\ b_prev_wait = -1
    /\ b_attempt \in 0..MaxAttemptArg
    /\ b_mwait = -1
    /\ b_mprev_wait = -1

\* wait_with_backoff(retry_count), then one more failure
WaitWithBackoff ==
    /\ b_retry_count <= MaxRetryArg
    /\ b_wait' = wait_with_backoff(b_retry_count)
    /\ b_prev_wait' = b_wait
    /\ b_retry_count' = b_retry_count + 1
    /\ UNCHANGED <<b_attempt, b_mwait, b_mprev_wait>>
    /\ UNCHANGED <<fetchVars, updateVars, migrateVars, batchVars,
                 reposVars, moreVars>>

\* exponential_backoff(attempt), then one more failure
ExponentialBackoff ==
    /\ b_attempt <= MaxAttemptArg
    /\ b_mwait' = exponential_backoff(b_attempt)
    /\ b_mprev_wait' = b_mwait
    /\ b_attempt' = b_attempt + 1
    /\ UNCHANGED <<b_retry_count, b_wait, b_prev_wait>>
    /\ UNCHANGED <<fetchVars, updateVars, migrateVars, batchVars,
                 reposVars, moreVars>>

(***************************************************************************)
(* The batch loops: list_issues.main and update_status.main                *)
(***************************************************************************)
MaxTargets == 2

Scripts == {"list_issues", "update_status"}

\* what the API can answer to a request: it accepts or rejects a request
\* that carries a token, and rejects every request that carries none
RequestOutcomes == {ok \in BOOLEAN : ok => token_set}

BatchInit ==
    /\ script \in Scripts
    /\ token_set \in BOOLEAN
    /\ targets_file \in BOOLEAN
    /\ n_targets \in 0..MaxTargets
    /\ bt_pc = "start"
    /\ t_i = 1
    /\ calls = <<>>
    /\ returns = <<>>
    /\ reports = <<>>
    /\ success_count = 0
    /\ upstream_requests = FALSE
    /\ u_pc = "off"
    /\ project_field \in StatusFields
    /\ retry_count = 0
    /\ sf_retry_count = 0
    /\ u_result = "none"
    /\ u_raised = FALSE
    /\ mutation_fails = 0
    /\ mutations_sent = 0
    /\ u_last_wait = 0

\* list_issues.main up to its for loop: get_project_id and get_project_items
\* send their requests with the token the environment gave, set or not; an
\* exception reaches the outer handler, which prints it and lets main return
ListMainStart ==
    /\ script = "list_issues"
    /\ bt_pc = "start"
    /\ upstream_requests' = TRUE
    /\ \E ok \in RequestOutcomes :
           bt_pc' = IF ok THEN "loop" ELSE "error_printed"
    /\ UNCHANGED <<script, token_set, targets_file, n_targets, t_i, calls,
                   returns, reports, success_count>>
    /\ UNCHANGED <<fetchVars, updateVars, migrateVars, backoffVars, reposVars, moreVars>>

\* the for loop of list_issues.main takes the next item and calls
\* update_item_status(project_id, item['id'], 'Done')
ListMainCall ==
    /\ script = "list_issues"
    /\ bt_pc = "loop"
    /\ t_i <= n_targets
    /\ calls' = Append(calls, t_i)
    /\ bt_pc' = "in_update"
    /\ u_pc' = "idle"
    /\ UNCHANGED <<script, token_set, targets_file, n_targets, t_i, returns,
                   reports, success_count, upstream_requests>>
    /\ UNCHANGED <<project_field, retry_count, sf_retry_count, u_result,
                   u_raised, mutation_fails, mutations_sent, u_last_wait>>
    /\ UNCHANGED <<fetchVars, migrateVars, backoffVars, reposVars, moreVars>>

\* update_item_status has returned to list_issues.main: its value is dropped,
\* the line that follows the call is printed, the loop goes to the next item
ListMainReport ==
    /\ script = "list_issues"
    /\ bt_pc = "in_update"
    /\ u_pc = "done"
    /\ returns' = Append(returns, u_result)
    /\ reports' = Append(reports, "success")
    /\ t_i' = t_i + 1
    /\ bt_pc' = "loop"
    /\ u_pc' = "off"
    /\ retry_count' = 0
    /\ sf_retry_count' = 0
    /\ u_result' = "none"
    /\ mutation_fails' = 0
    /\ mutations_sent' = 0
    /\ u_last_wait' = 0
    /\ UNCHANGED <<project_field, u_raised>>
    /\ UNCHANGED <<script, token_set, targets_file, n_targets, calls,
                   success_count, upstream_requests>>
    /\ UNCHANGED <<fetchVars, migrateVars, backoffVars, reposVars, moreVars>>

\* the for loop of list_issues.main is exhausted and main returns
ListMainFinish ==
    /\ script = "list_issues"
    /\ bt_pc = "loop"
    /\ t_i > n_targets
    /\ bt_pc' = "completed"
    /\ UNCHANGED <<script, token_set, targets_file, n_targets, t_i, calls,
                   returns, reports, success_count, upstream_requests>>
    /\ UNCHANGED <<fetchVars, updateVars, migrateVars, backoffVars, reposVars, moreVars>>

\* update_status.main opens update_targets.json: FileNotFoundError prints
\* and exits with status 1, else the targets are loaded and the loop starts
StatusMainOpen ==
    /\ script = "update_status"
    /\ bt_pc = "start"
    /\ bt_pc' = IF targets_file THEN "loop" ELSE "exit1"
    /\ UNCHANGED <<script, token_set, targets_file, n_targets, t_i, calls,
                   returns, reports, success_count, upstream_requests>>
    /\ UNCHANGED <<fetchVars, updateVars, migrateVars, backoffVars, reposVars, moreVars>>

\* update_status.update_item_status: True only when the field query was
\* answered with a field that has the option and the mutation was accepted;
\* every exception is caught and gives False
status_update_result(field_ok, mutation_ok) ==
    IF field_ok /\ project_field = "with_option" /\ mutation_ok
    THEN "True"
    ELSE "False"

\* a loop body that leaves the loop at the first failed update
StatusMainItem_StopsAtFailure ==
    /\ script = "update_status"
    /\ bt_pc = "loop"
    /\ t_i <= n_targets
    /\ \E field_ok \in RequestOutcomes, mutation_ok \in RequestOutcomes :
         LET r == status_update_result(field_ok, mutation_ok) IN
           /\ calls' = Append(calls, t_i)
           /\ returns' = Append(returns, r)
           /\ success_count' =
                  IF r = "True" THEN success_count + 1 ELSE success_count
           /\ reports' =
                  Append(reports, IF r = "True" THEN "success" ELSE "failure")
           /\ bt_pc' = IF r = "True" THEN "loop" ELSE "completed"
    /\ upstream_requests' = TRUE
    /\ t_i' = t_i + 1
    /\ UNCHANGED <<script, token_set, targets_file, n_targets>>
    /\ UNCHANGED <<fetchVars, updateVars, migrateVars, backoffVars, reposVars, moreVars>>

\* one pass of the for loop of update_status.main: the call, the count and
\* the line printed for the target
StatusMainItem ==
    /\ script = "update_status"
    /\ bt_pc = "loop"
    /\ t_i <= n_targets
    /\ \E field_ok \in RequestOutcomes, mutation_ok \in RequestOutcomes :
         LET r == status_update_result(field_ok, mutation_ok) IN
           /\ calls' = Append(calls, t_i)
           /\ returns' = Append(returns, r)
           /\ success_count' =
                  IF r = "True" THEN success_count + 1 ELSE success_count
           /\ reports' =
                  Append(reports, IF r = "True" THEN "success" ELSE "failure")
    /\ upstream_requests' = TRUE
    /\ t_i' = t_i + 1
    /\ UNCHANGED <<script, token_set, targets_file, n_targets, bt_pc>>
    /\ UNCHANGED <<fetchVars, updateVars, migrateVars, backoffVars, reposVars, moreVars>>

\* the for loop of update_status.main is exhausted: the total is printed
StatusMainFinish ==
    /\ script = "update_status"
    /\ bt_pc = "loop"
    /\ t_i > n_targets
    /\ bt_pc' = "completed"
    /\ UNCHANGED <<script, token_set, targets_file, n_targets, t_i, calls,
                   returns, reports, success_count, upstream_requests>>
    /\ UNCHANGED <<fetchVars, updateVars, migrateVars, backoffVars, reposVars, moreVars>>

(***************************************************************************)
(* list_repos.get_accessible_repositories                                  *)
(***************************************************************************)
MaxRepos == 4       \* most repositories one owner has upstream
MaxOrgs == 2        \* most organizations of the viewer
PageFirst == 2      \* 'first' of the request (100 in the script), scaled

\* a repository node: owner 0 is the viewer, owner j > 0 the j-th organization
Repo(o, k) == [owner |-> o, number |-> k]

\* 'after': None asks for the first page
Offset(cursor) == IF cursor = -1 THEN 0 ELSE cursor

\* nodes of repositories(first: $first, after: $after) on a connection of
\* total repositories: a cursor is the position of the last node of a page
RepoPage(o, total, cursor) ==
    [k \in 1..Min(PageFirst, total - Offset(cursor)) |->
        Repo(o, Offset(cursor) + k)]

\* pageInfo of that page
hasNextPage(total, cursor) == Offset(cursor) + PageFirst < total

endCursor(total, cursor) ==
    IF total - Offset(cursor) <= 0 THEN -1
    ELSE Offset(cursor) + Min(PageFirst, total - Offset(cursor))

\* the for loop over result['viewer']['organizations']['nodes']: every
\* organization's connection was asked with the same $after
OrgNodes(cursor) ==
    Flatten([j \in 1..Len(org_totals) |-> RepoPage(j, org_totals[j], cursor)])

RECURSIVE OrgTotals(_)
OrgTotals(n) ==
    IF n = 0 THEN {<<>>}
    ELSE OrgTotals(n - 1) \cup
         {<<t>> \o s : t \in 0..MaxRepos,
                       s \in {x \in OrgTotals(n - 1) : Len(x) = n - 1}}

ReposInit ==
    /\ viewer_total \in 0..MaxRepos
    /\ org_totals \in OrgTotals(MaxOrgs)
    /\ r_pc = "loop"
    /\ all_repos = <<>>
    /\ r_has_next_page = TRUE
    /\ end_cursor = -1
    /\ r_result = <<>>
    /\ r_error = NoError

\* one pass of the while loop: the request succeeds, the viewer's nodes and
\* each organization's nodes are appended, and the pagination state is taken
\* from the viewer's pageInfo
ReposPageOk ==
    /\ r_pc = "loop"
    /\ r_has_next_page
    /\ all_repos' = all_repos \o RepoPage(0, viewer_total, end_cursor)
                              \o OrgNodes(end_cursor)
    /\ r_has_next_page' = hasNextPage(viewer_total, end_cursor)
    /\ end_cursor' = endCursor(viewer_total, end_cursor)
    /\ UNCHANGED <<viewer_total, org_totals, r_pc, r_result, r_error>>
    /\ UNCHANGED <<fetchVars, updateVars, migrateVars, backoffVars, batchVars, moreVars>>

\* client.execute raises: whatever the exception, the handler prints it and
\* returns []
ReposPageError ==
    /\ r_pc = "loop"
    /\ r_has_next_page
    /\ \E e \in Errors : r_error' = e
    /\ r_result' = <<>>
    /\ r_pc' = "returned"
    /\ UNCHANGED <<viewer_total, org_totals, all_repos, r_has_next_page,
                   end_cursor>>
    /\ UNCHANGED <<fetchVars, updateVars, migrateVars, backoffVars, batchVars, moreVars>>

\* the while loop ends: return all_repos
ReposReturn ==
    /\ r_pc = "loop"
    /\ ~r_has_next_page
    /\ r_result' = all_repos
    /\ r_pc' = "returned"
    /\ UNCHANGED <<viewer_total, org_totals, all_repos, r_has_next_page,
                   end_cursor, r_error>>
    /\ UNCHANGED <<fetchVars, updateVars, migrateVars, backoffVars, batchVars, moreVars>>

(***************************************************************************)
(* migrate.update_item_status                                              *)
(***************************************************************************)
MaxOptions == 2

\* JIRA status names: the six of status_mapping and two it does not hold
JiraStatuses ==
    {"Open", "Reopened", "In Progress", "Done", "Resolved", "Closed",
     "Blocked", "open"}

\* names a project's Status options can have
OptionNames == {"Todo", "TODO", "In Progress", "Done", "done", "Backlog"}

status_mapping ==
    [j \in {"Open", "Reopened", "In Progress", "Done", "Resolved", "Closed"} |->
        CASE j = "Open" -> "Todo"
          [] j = "Reopened" -> "Todo"
          [] j = "In Progress" -> "In Progress"
          [] j = "Done" -> "Done"
          [] j = "Resolved" -> "Done"
          [] j = "Closed" -> "Done"]

\* status_mapping.get(jira_status, 'Todo')
mapped_status(j) ==
    IF j \in DOMAIN status_mapping THEN status_mapping[j] ELSE "Todo"

\* str.lower() on the names that occur
lower(name) ==
    CASE name \in {"Todo", "TODO"} -> "todo"
      [] name = "In Progress" -> "in progress"
      [] name \in {"Done", "done"} -> "done"
      [] name = "Backlog" -> "backlog"

\* a search that compares the names as they are written
status_option_exact(opts, status) ==
    IF \E n \in 1..Len(opts) : opts[n] = status
    THEN status
    ELSE "none"

\* next((opt for opt in options if opt['name'].lower() == status.lower()),
\* None): the first option that matches, "none" for None
status_option(opts, status) ==
    IF \E n \in 1..Len(opts) : lower(opts[n]) = lower(status)
    THEN opts[CHOOSE n \in 1..Len(opts) :
                 /\ lower(opts[n]) = lower(status)
                 /\ \A m \in 1..(n - 1) : lower(opts[m]) # lower(status)]
    ELSE "none"

RECURSIVE OptionSeqs(_)
OptionSeqs(n) ==
    IF n = 0 THEN {<<>>}
    ELSE OptionSeqs(n - 1) \cup
         {Append(t, o) : t \in {u \in OptionSeqs(n - 1) : Len(u) = n - 1},
                         o \in OptionNames}

StatusInit ==
    /\ jira_status \in JiraStatuses
    /\ options \in {t \in OptionSeqs(MaxOptions) : NoDup(t)}
    /\ s_pc = "called"
    /\ github_status = "none"
    /\ s_mutation = "none"

\* update_item_status(project_id, item_id, status_field, jira_status): the
\* status is mapped, the option looked up, and the mutation posted when
\* there is one; a rejected mutation prints a warning
UpdateItemStatus ==
    /\ s_pc = "called"
    /\ github_status' = mapped_status(jira_status)
    /\ s_mutation' = status_option(options, mapped_status(jira_status))
    /\ \E accepted \in BOOLEAN :
          s_pc' = IF status_option(options, mapped_status(jira_status)) = "none"
                  THEN "warned_no_option"
                  ELSE IF accepted THEN "updated" ELSE "warned_rejected"
    /\ UNCHANGED <<jira_status, options>>
    /\ UNCHANGED <<fetchVars, updateVars, migrateVars, backoffVars, batchVars,
                   reposVars, jiraVars, cleanVars, devinVars>>

(***************************************************************************)
(* migrate.get_jira_issues                                                 *)
(***************************************************************************)
MaxJiraTotal == 30      \* most issues the query matches
JiraPage == 3           \* max_results (100 in the script), scaled

\* jira.search_issues(jql, startAt=start, maxResults=n): the issues are
\* numbered in query order, the server returns at most n from start on
search_issues(total, start, n) ==
    [k \in 1..Min(n, total - start) |-> start + k]

JiraInit ==
    /\ j_total \in 0..MaxJiraTotal
    /\ j_pc = "loop"
    /\ start_at = 0
    /\ all_issues = <<>>
    /\ j_requests = <<>>

\* a pass of the loop that goes on after any page that is not empty
JiraSearchPage_StopsOnlyWhenEmpty ==
    /\ j_pc = "loop"
    /\ j_requests' = Append(j_requests, start_at)
    /\ LET page == search_issues(j_total, start_at, JiraPage) IN
         IF Len(page) = 0
         THEN /\ j_pc' = "returned"
              /\ UNCHANGED <<all_issues, start_at>>
         ELSE /\ all_issues' = all_issues \o page
              /\ start_at' = start_at + JiraPage
              /\ j_pc' = "loop"
    /\ UNCHANGED j_total
    /\ UNCHANGED <<fetchVars, updateVars, migrateVars, backoffVars, batchVars,
                   reposVars, statusVars, cleanVars, devinVars>>

\* one pass of the while loop: the page is requested; an empty page ends
\* the loop, a page is appended, a short page ends the loop, else start_at
\* advances; after the loop all_issues is returned
JiraSearchPage ==
    /\ j_pc = "loop"
    /\ j_requests' = Append(j_requests, start_at)
    /\ LET page == search_issues(j_total, start_at, JiraPage) IN
         IF Len(page) = 0
         THEN /\ j_pc' = "returned"
              /\ UNCHANGED <<all_issues, start_at>>
         ELSE /\ all_issues' = all_issues \o page
              /\ IF Len(page) < JiraPage
                 THEN /\ j_pc' = "returned"
                      /\ start_at' = start_at
                 ELSE /\ j_pc' = "loop"
                      /\ start_at' = start_at + JiraPage
    /\ UNCHANGED j_total
    /\ UNCHANGED <<fetchVars, updateVars, migrateVars, backoffVars, batchVars,
                   reposVars, statusVars, cleanVars, devinVars>>

(***************************************************************************)
(* Branch cleanup from the input file: the 'cleanup' command of            *)
(* branch_cleaner.py and cleanup_branches.py, GitHubManager.delete_old_branch *)
(***************************************************************************)
MaxFileRepos == 2       \* most repositories in the input file
MaxFileBranches == 2    \* most branches in the input file
Now == 10               \* datetime.now(), in days

\* days_old: int = 4, and the default of --days
DefaultDays == 4

\* last_commit_date values of the file: older than the default cutoff, at
\* it, newer; -1 is a string datetime.fromisoformat cannot turn into a date
\* that compares with datetime.now()
FileDates == {Now - DefaultDays - 1, Now - DefaultDays, Now - 1, -1}

BranchNames == {"devin/a", "main"}

\* name.startswith('devin/')
startswith_devin(name) == name = "devin/a"

BranchInfos == [name : BranchNames, last_commit_date : FileDates]

RECURSIVE BranchLists(_)
BranchLists(n) ==
    IF n = 0 THEN {<<>>}
    ELSE BranchLists(n - 1) \cup
         {Append(t, b) : t \in {u \in BranchLists(n - 1) : Len(u) = n - 1},
                         b \in BranchInfos}

\* the files of at most r repositories from full_name `first` on, with at
\* most n branches in all
RECURSIVE RepoLists(_, _, _)
RepoLists(first, r, n) ==
    IF r = 0 THEN {<<>>}
    ELSE {<<>>} \cup
         UNION {{<<[full_name |-> first, devin_branches |-> bl]>> \o rest :
                    rest \in RepoLists(first + 1, r - 1, n - Len(bl))} :
                bl \in BranchLists(n)}

\* cutoff_date = datetime.now() - timedelta(days=days_old)
cutoff_date(days_old) == Now - days_old

\* a test that lets a branch last committed to exactly at the cutoff through
is_recent_after_cutoff(last_commit_date, days_old) ==
    last_commit_date > cutoff_date(days_old)

\* last_commit_date >= cutoff_date
is_recent(last_commit_date, days_old) ==
    last_commit_date >= cutoff_date(days_old)

\* a branch that deletes whatever dry_run says
ref_action_always_deletes(dry) == "deleted"

\* if not dry_run: ref.delete(), status 'deleted'; else status 'simulation'
ref_action(dry) == IF ~dry THEN "deleted" ELSE "simulation"

\* the dry_run argument: cleanup_branches.py passes True, the 'cleanup'
\* command passes not args.execute
dry_run == IF c_script = "cleanup_branches" THEN TRUE ELSE ~execute

CleanInit ==
    /\ c_script \in {"branch_cleaner", "cleanup_branches"}
    /\ execute \in {e \in BOOLEAN : e => c_script = "branch_cleaner"}
    /\ days \in {d \in {1, DefaultDays} :
                    c_script = "cleanup_branches" => d = DefaultDays}
    /\ repos_info \in RepoLists(1, MaxFileRepos, MaxFileBranches)
    /\ c_pc = "start"
    /\ c_r = 1
    /\ c_b = 1
    /\ c_log = <<>>

\* the script starts: a missing input file, a missing token (ValueError of
\* GitHubManager) or a file that json.load rejects ends it with exit status
\* 1, else the loops start
CleanStart ==
    /\ c_pc = "start"
    /\ \E ok \in BOOLEAN : c_pc' = IF ok THEN "loop" ELSE "exit1"
    /\ UNCHANGED <<c_script, execute, days, repos_info, c_r, c_b, c_log>>
    /\ UNCHANGED <<fetchVars, updateVars, migrateVars, backoffVars, batchVars,
                   reposVars, statusVars, jiraVars, devinVars>>

\* the loops stand at a branch of a repository of the file
AtBranch ==
    /\ c_pc = "loop"
    /\ c_r <= Len(repos_info)
    /\ c_b <= Len(repos_info[c_r].devin_branches)

branch_info == repos_info[c_r].devin_branches[c_b]

\* what delete_old_branch returned, with what it was called on
CleanResult(status, sent, actual) ==
    [repo |-> repos_info[c_r].full_name,
     branch |-> branch_info.name,
     last_commit_date |-> branch_info.last_commit_date,
     status |-> status,
     requested |-> sent,
     actual |-> actual]

\* delete_old_branch raises before its try block: fromisoformat rejects the
\* string or the comparison with cutoff_date raises; the script's handler
\* prints the error and exits with status 1
DeleteOldBranchRaises ==
    /\ AtBranch
    /\ branch_info.last_commit_date = -1
    /\ c_pc' = "exit1"
    /\ UNCHANGED <<c_script, execute, days, repos_info, c_r, c_b, c_log>>
    /\ UNCHANGED <<fetchVars, updateVars, migrateVars, backoffVars, batchVars,
                   reposVars, statusVars, jiraVars, devinVars>>

\* delete_old_branch returns 'skipped' without a request
DeleteOldBranchSkipped ==
    /\ AtBranch
    /\ branch_info.last_commit_date # -1
    /\ is_recent(branch_info.last_commit_date, days)
    /\ c_log' = Append(c_log, CleanResult("skipped", FALSE, -1))
    /\ c_b' = c_b + 1
    /\ UNCHANGED <<c_script, execute, days, repos_info, c_pc, c_r>>
    /\ UNCHANGED <<fetchVars, updateVars, migrateVars, backoffVars, batchVars,
                   reposVars, statusVars, jiraVars, devinVars>>

\* delete_old_branch asks for the repository and the ref; an exception of
\* get_repo, get_git_ref or ref.delete gives 'error', else the ref is deleted
\* or the deletion simulated. `actual` is the date of the branch's last
\* commit on GitHub at that moment: the recorded one, or today's when a
\* commit was pushed after the file was written
DeleteOldBranchRequests ==
    /\ AtBranch
    /\ branch_info.last_commit_date # -1
    /\ ~is_recent(branch_info.last_commit_date, days)
    /\ \E raised \in BOOLEAN, actual \in {branch_info.last_commit_date, Now} :
          c_log' = Append(c_log,
                      CleanResult(IF raised THEN "error" ELSE ref_action(dry_run),
                                  TRUE, actual))
    /\ c_b' = c_b + 1
    /\ UNCHANGED <<c_script, execute, days, repos_info, c_pc, c_r>>
    /\ UNCHANGED <<fetchVars, updateVars, migrateVars, backoffVars, batchVars,
                   reposVars, statusVars, jiraVars, devinVars>>

\* the inner for loop is exhausted: the outer loop takes the next repository
CleanNextRepo ==
    /\ c_pc = "loop"
    /\ c_r <= Len(repos_info)
    /\ c_b > Len(repos_info[c_r].devin_branches)
    /\ c_r' = c_r + 1
    /\ c_b' = 1
    /\ UNCHANGED <<c_script, execute, days, repos_info, c_pc, c_log>>
    /\ UNCHANGED <<fetchVars, updateVars, migrateVars, backoffVars, batchVars,
                   reposVars, statusVars, jiraVars, devinVars>>

\* the outer for loop is exhausted
CleanFinish ==
    /\ c_pc = "loop"
    /\ c_r > Len(repos_info)
    /\ c_pc' = "done"
    /\ UNCHANGED <<c_script, execute, days, repos_info, c_r, c_b, c_log>>
    /\ UNCHANGED <<fetchVars, updateVars, migrateVars, backoffVars, batchVars,
                   reposVars, statusVars, jiraVars, devinVars>>

(***************************************************************************)
(* cleanup_devin_branches.py                                               *)
(***************************************************************************)
MaxLiveRepos == 2       \* most repositories the token has access to
MaxLiveBranches == 2    \* most branches they have in all

\* commit.commit.author.date of a branch: older than the cutoff, at it, newer
LiveDates == {Now - DefaultDays - 1, Now - DefaultDays, Now - 1}

LiveBranches == [name : BranchNames, commit_date : LiveDates]

RECURSIVE LiveBranchLists(_)
LiveBranchLists(n) ==
    IF n = 0 THEN {<<>>}
    ELSE LiveBranchLists(n - 1) \cup
         {Append(t, b) : t \in {u \in LiveBranchLists(n - 1) : Len(u) = n - 1},
                         b \in LiveBranches}

\* at most r repositories with at most n branches in all
RECURSIVE LiveRepoLists(_, _)
LiveRepoLists(r, n) ==
    IF r = 0 THEN {<<>>}
    ELSE {<<>>} \cup
         UNION {{<<bl>> \o rest : rest \in LiveRepoLists(r - 1, n - Len(bl))} :
                bl \in LiveBranchLists(n)}

DevinInit ==
    /\ d_repos \in LiveRepoLists(MaxLiveRepos, MaxLiveBranches)
    /\ d_pc = "start"
    /\ d_r = 1
    /\ d_b = 1
    /\ d_log = <<>>
    /\ d_listing_failed = {}

\* main up to its for loop: without GITHUB_TOKEN it prints and exits with
\* status 1, an exception of get_repos ends the script, else the loop starts
DevinStart ==
    /\ d_pc = "start"
    /\ \E ok \in BOOLEAN : d_pc' = IF ok THEN "loop" ELSE "exit1"
    /\ UNCHANGED <<d_repos, d_r, d_b, d_log, d_listing_failed>>
    /\ UNCHANGED <<fetchVars, updateVars, migrateVars, backoffVars, batchVars,
                   reposVars, statusVars, jiraVars, cleanVars>>

\* the branch the for loop of cleanup_old_devin_branches stands at
AtLiveBranch ==
    /\ d_pc = "loop"
    /\ d_r <= Len(d_repos)
    /\ d_b <= Len(d_repos[d_r])

live_branch == d_repos[d_r][d_b]

\* the branch passes both tests of the loop body
to_delete(branch) ==
    /\ startswith_devin(branch.name)
    /\ branch.commit_date < cutoff_date(DefaultDays)

\* get_branches, the paging of its result or the commit lookup raises: the
\* outer handler prints the error, the function returns and main goes on
\* with the next repository
DevinRepoRaises ==
    /\ d_pc = "loop"
    /\ d_r <= Len(d_repos)
    /\ d_listing_failed' = d_listing_failed \cup {d_r}
    /\ d_r' = d_r + 1
    /\ d_b' = 1
    /\ UNCHANGED <<d_repos, d_pc, d_log>>
    /\ UNCHANGED <<fetchVars, updateVars, migrateVars, backoffVars, batchVars,
                   reposVars, statusVars, jiraVars, cleanVars>>

\* a branch that is not a devin/ branch or is not older than the cutoff
DevinBranchKept ==
    /\ AtLiveBranch
    /\ ~to_delete(live_branch)
    /\ d_b' = d_b + 1
    /\ UNCHANGED <<d_repos, d_pc, d_r, d_log, d_listing_failed>>
    /\ UNCHANGED <<fetchVars, updateVars, migrateVars, backoffVars, batchVars,
                   reposVars, statusVars, jiraVars, cleanVars>>

\* a deletion whose failure ends the work on the repository
DevinBranchDelete_FailureEndsRepository ==
    /\ AtLiveBranch
    /\ to_delete(live_branch)
    /\ \E ok \in BOOLEAN :
          /\ d_log' = Append(d_log,
                         [repo |-> d_r, pos |-> d_b, branch |-> live_branch,
                          status |-> IF ok THEN "deleted" ELSE "failed"])
          /\ d_b' = IF ok THEN d_b + 1 ELSE 1
          /\ d_r' = IF ok THEN d_r ELSE d_r + 1
    /\ UNCHANGED <<d_repos, d_pc, d_listing_failed>>
    /\ UNCHANGED <<fetchVars, updateVars, migrateVars, backoffVars, batchVars,
                   reposVars, statusVars, jiraVars, cleanVars>>

\* an old devin/ branch: get_git_ref and ref.delete(); their exception is
\* caught inside the loop body and printed, and the loop goes on
DevinBranchDelete ==
    /\ AtLiveBranch
    /\ to_delete(live_branch)
    /\ \E ok \in BOOLEAN :
          d_log' = Append(d_log,
                      [repo |-> d_r, pos |-> d_b, branch |-> live_branch,
                       status |-> IF ok THEN "deleted" ELSE "failed"])
    /\ d_b' = d_b + 1
    /\ UNCHANGED <<d_repos, d_pc, d_r, d_listing_failed>>
    /\ UNCHANGED <<fetchVars, updateVars, migrateVars, backoffVars, batchVars,
                   reposVars, statusVars, jiraVars, cleanVars>>

\* the branches of the repository are exhausted: main takes the next one
DevinNextRepo ==
    /\ d_pc = "loop"
    /\ d_r <= Len(d_repos)
    /\ d_b > Len(d_repos[d_r])
    /\ d_r' = d_r + 1
    /\ d_b' = 1
    /\ UNCHANGED <<d_repos, d_pc, d_log, d_listing_failed>>
    /\ UNCHANGED <<fetchVars, updateVars, migrateVars, backoffVars, batchVars,
                   reposVars, statusVars, jiraVars, cleanVars>>

\* the for loop of main is exhausted
DevinFinish ==
    /\ d_pc = "loop"
    /\ d_r > Len(d_repos)
    /\ d_pc' = "done"
    /\ UNCHANGED <<d_repos, d_r, d_b, d_log, d_listing_failed>>
    /\ UNCHANGED <<fetchVars, updateVars, migrateVars, backoffVars, batchVars,
                   reposVars, statusVars, jiraVars, cleanVars>>

(***************************************************************************)
(* Specifications: one per script, the other scripts not running           *)
(***************************************************************************)
FetchOff ==
    /\ pages = << <<>> >>
    /\ cache_file = NoFile
    /\ pc = "off"
    /\ force_refresh = FALSE
    /\ all_items = <<>>
    /\ has_next_page = FALSE
    /\ after = 0
    /\ requested = FALSE
    /\ rl_seen = FALSE
    /\ consec_fails = 0
    /\ last_wait = 0
    /\ last_error = NoError
    /\ cache_before = NoFile
    /\ hist = <<>>

UpdateOff ==
    /\ u_pc = "off"
    /\ project_field = "null"
    /\ retry_count = 0
    /\ sf_retry_count = 0
    /\ u_result = "none"
    /\ u_raised = FALSE
    /\ mutation_fails = 0
    /\ mutations_sent = 0
    /\ u_last_wait = 0

MigrateOff ==
    /\ issues = <<>>
    /\ project_items = <<>>
    /\ existing_items = <<>>
    /\ m_pc = "off"
    /\ m_i = 1
    /\ attempt = 0
    /\ created = <<>>
    /\ m_last_wait = 0
    /\ rl_skipped = {}

BackoffOff ==
    /\ b_retry_count = MaxRetryArg + 1
    /\ b_wait = -1
    /\ b_prev_wait = -1
    /\ b_attempt = MaxAttemptArg + 1
    /\ b_mwait = -1
    /\ b_mprev_wait = -1

BatchOff ==
    /\ script = "none"
    /\ token_set = FALSE
    /\ targets_file = FALSE
    /\ n_targets = 0
    /\ bt_pc = "off"
    /\ t_i = 1
    /\ calls = <<>>
    /\ returns = <<>>
    /\ reports = <<>>
    /\ success_count = 0
    /\ upstream_requests = FALSE

ReposOff ==
    /\ viewer_total = 0
    /\ org_totals = <<>>
    /\ r_pc = "off"
    /\ all_repos = <<>>
    /\ r_has_next_page = FALSE
    /\ end_cursor = -1
    /\ r_result = <<>>
    /\ r_error = NoError

StatusOff ==
    /\ jira_status = "none"
    /\ options = <<>>
    /\ s_pc = "off"
    /\ github_status = "none"
    /\ s_mutation = "none"

JiraOff ==
    /\ j_total = 0
    /\ j_pc = "off"
    /\ start_at = 0
    /\ all_issues = <<>>
    /\ j_requests = <<>>

CleanOff ==
    /\ c_script = "none"
    /\ execute = FALSE
    /\ days = 0
    /\ repos_info = <<>>
    /\ c_pc = "off"
    /\ c_r = 1
    /\ c_b = 1
    /\ c_log = <<>>

DevinOff ==
    /\ d_repos = <<>>
    /\ d_pc = "off"
    /\ d_r = 1
    /\ d_b = 1
    /\ d_log = <<>>
    /\ d_listing_failed = {}

MoreOff == StatusOff /\ JiraOff /\ CleanOff /\ DevinOff

\* list_issues.get_project_items
Init == FetchInit /\ UpdateOff /\ MigrateOff /\ BackoffOff
    /\ BatchOff /\ ReposOff /\ MoreOff

Next ==
    \/ Call
    \/ PageOk
    \/ PageRateLimited
    \/ FetchWaitDone
    \/ PageFatal
    \/ Terminate

Spec == Init /\ [][Next]_vars

\* list_issues.update_item_status
InitUpdate == FetchOff /\ UpdateInit /\ MigrateOff /\ BackoffOff
    /\ BatchOff /\ ReposOff /\ MoreOff

NextUpdate ==
    \/ UpdateStart
    \/ StatusFieldOk
    \/ StatusFieldError
    \/ StatusFieldWaitDone
    \/ MutationOk
    \/ MutationError
    \/ MutationWaitDone

SpecUpdate == InitUpdate /\ [][NextUpdate]_vars

\* migrate.migrate_issues
InitMigrate == FetchOff /\ UpdateOff /\ MigrateInit /\ BackoffOff
    /\ BatchOff /\ ReposOff /\ MoreOff

NextMigrate ==
    \/ MigrateSkip
    \/ CreateOk
    \/ CreateRateLimited
    \/ MigrateWaitDone
    \/ CreateFatal
    \/ MigrateFinish

SpecMigrate == InitMigrate /\ [][NextMigrate]_vars

\* list_issues.main and update_status.main
InitBatch ==
    FetchOff /\ BatchInit /\ MigrateOff /\ BackoffOff /\ ReposOff /\ MoreOff

NextBatch ==
    \/ ListMainStart
    \/ ListMainCall
    \/ UpdateStart
    \/ StatusFieldOk
    \/ StatusFieldError
    \/ StatusFieldWaitDone
    \/ MutationOk
    \/ MutationError
    \/ MutationWaitDone
    \/ ListMainReport
    \/ ListMainFinish
    \/ StatusMainOpen
    \/ StatusMainItem
    \/ StatusMainFinish

SpecBatch == InitBatch /\ [][NextBatch]_vars

\* list_repos.get_accessible_repositories
InitRepos ==
    /\ FetchOff /\ UpdateOff /\ MigrateOff /\ BackoffOff /\ BatchOff
    /\ ReposInit /\ MoreOff

NextRepos ==
    \/ ReposPageOk
    \/ ReposPageError
    \/ ReposReturn

SpecRepos == InitRepos /\ [][NextRepos]_vars

\* migrate.update_item_status
InitStatus ==
    /\ FetchOff /\ UpdateOff /\ MigrateOff /\ BackoffOff /\ BatchOff /\ ReposOff
    /\ StatusInit /\ JiraOff /\ CleanOff /\ DevinOff

NextStatus == UpdateItemStatus

SpecStatus == InitStatus /\ [][NextStatus]_vars

\* migrate.get_jira_issues; the loop neither sleeps nor waits for anything
\* but the answer to its request, so it always takes its next step
InitJira ==
    /\ FetchOff /\ UpdateOff /\ MigrateOff /\ BackoffOff /\ BatchOff /\ ReposOff
    /\ StatusOff /\ JiraInit /\ CleanOff /\ DevinOff

NextJira == JiraSearchPage

SpecJira == InitJira /\ [][NextJira]_vars /\ WF_vars(NextJira)

\* the 'cleanup' command of branch_cleaner.py and cleanup_branches.py
InitClean ==
    /\ FetchOff /\ UpdateOff /\ MigrateOff /\ BackoffOff /\ BatchOff /\ ReposOff
    /\ StatusOff /\ JiraOff /\ CleanInit /\ DevinOff

NextClean ==
    \/ CleanStart
    \/ DeleteOldBranchRaises
    \/ DeleteOldBranchSkipped
    \/ DeleteOldBranchRequests
    \/ CleanNextRepo
    \/ CleanFinish

SpecClean == InitClean /\ [][NextClean]_vars

\* cleanup_devin_branches.py
InitDevin ==
    /\ FetchOff /\ UpdateOff /\ MigrateOff /\ BackoffOff /\ BatchOff /\ ReposOff
    /\ StatusOff /\ JiraOff /\ CleanOff /\ DevinInit

NextDevin ==
    \/ DevinStart
    \/ DevinRepoRaises
    \/ DevinBranchKept
    \/ DevinBranchDelete
    \/ DevinNextRepo
    \/ DevinFinish

SpecDevin == InitDevin /\ [][NextDevin]_vars

\* wait_with_backoff and exponential_backoff
InitBackoff == FetchOff /\ UpdateOff /\ MigrateOff /\ BackoffInit
    /\ BatchOff /\ ReposOff /\ MoreOff

NextBackoff ==
    \/ WaitWithBackoff
    \/ ExponentialBackoff

SpecBackoff == InitBackoff /\ [][NextBackoff]_vars


(***************************************************************************)
(* Properties                                                              *)
(***************************************************************************)
\* the filter of get_project_items as the documentation states it
PassesFilter(item) ==
    item.content # "none" /\ item.status = "Todo" /\ item.body = "marker"

\* the upstream items that pass the filter, in arrival order; the same for
\* every cut of the upstream sequence into pages
ExpectedResult == SelectSeq(Flatten(pages), PassesFilter)

\* the errors the page loop waits out
RecognizedByPageFetch(e) ==
    e.exc = "TransportQueryError" /\ e.text \in {TXT_BOTH, TXT_MSG}

FetchReturned(h) == h.source = "fetch" /\ h.outcome = "returned"

\* C1: a get_project_items call that bypasses the cache and meets no failing
\* request returns exactly the upstream items that pass the filter, in
\* arrival order, whatever the cut into pages.
C1_FetchReturnsFilteredSubset ==
    \A k \in 1..Len(hist) :
        (/\ hist[k].force_refresh
         /\ hist[k].outcome # "terminated"
         /\ ~hist[k].rate_limited
         /\ hist[k].error = NoError)
        => (hist[k].outcome = "returned" /\ hist[k].result = ExpectedResult)

\* C2: a rate-limit error the page loop recognizes is not raised; the failed
\* attempt accumulates nothing and leaves the cursor where it was, the request
\* is issued again with that cursor after the wait, and a fetch that returns
\* after rate-limit errors returns what it returns without them.
C2_RateLimitRetriesSamePage ==
    /\ [][(pc = "loop" /\ pc' = "waiting")
            => (/\ RecognizedByPageFetch(last_error')
                /\ all_items' = all_items
                /\ after' = after
                /\ has_next_page'
                /\ hist' = hist)]_vars
    /\ [][(pc = "waiting" /\ pc' = "loop")
            => (all_items' = all_items /\ after' = after /\ has_next_page')]_vars
    /\ [](\A k \in 1..Len(hist) :
            /\ hist[k].error # NoError => ~RecognizedByPageFetch(hist[k].error)
            /\ FetchReturned(hist[k]) => hist[k].result = ExpectedResult)

C2_Witness ==
    \E k \in 1..Len(hist) :
        /\ FetchReturned(hist[k])
        /\ hist[k].rate_limited
        /\ Len(pages) >= 2
        /\ Len(hist[k].result) >= 2

\* C3: one page request meets at most MAX_RETRIES + 1 rate-limit errors (the
\* first attempt and MAX_RETRIES retries) before the fetch is abandoned.
C3_PageRetriesBounded == consec_fails <= MAX_RETRIES + 1

\* C5: after a first call that fetched and returned, a second call without
\* force_refresh returns the same sequence from the cache and issues no
\* request.
C5_SecondCallServedFromCache ==
    (/\ Len(hist) = 2
     /\ FetchReturned(hist[1])
     /\ ~hist[2].force_refresh)
    => (/\ hist[2].source = "cache"
        /\ hist[2].outcome = "returned"
        /\ hist[2].result = hist[1].result
        /\ ~hist[2].requested)

\* C6: an error the page loop does not recognize as a rate limit is never
\* waited out or retried: it ends the call as that exception, and the cache
\* file is what it was before the call.
C6_FatalErrorStopsFetch ==
    /\ (pc \in {"loop", "waiting"} /\ last_error # NoError)
          => RecognizedByPageFetch(last_error)
    /\ \A k \in 1..Len(hist) :
          hist[k].error # NoError
          => (/\ hist[k].outcome = hist[k].error.exc
              /\ hist[k].cache_after = hist[k].cache_before)

C6_Witness ==
    \E k \in 1..Len(hist) :
        /\ hist[k].error = [exc |-> "TransportQueryError", text |-> TXT_OTHER]
        /\ hist[k].rate_limited
        /\ hist[k].cache_before = File(<<Catalogue[6]>>)
        /\ Len(pages) >= 2
        /\ Head(pages) = <<Catalogue[1]>>

\* C7: during a call the cache file is what it was before the call; after a
\* call it is that same content, or, when the fetch returned, exactly the
\* complete sequence the call returned.
C7_CacheAllOrNothing ==
    /\ pc \in {"loop", "waiting"} => cache_file = cache_before
    /\ (pc = "idle" /\ hist # <<>>) => cache_file = hist[Len(hist)].cache_after
    /\ \A k \in 1..Len(hist) :
          IF FetchReturned(hist[k])
          THEN /\ hist[k].cache_after = File(hist[k].result)
               /\ hist[k].result = ExpectedResult
          ELSE hist[k].cache_after = hist[k].cache_before

C7_Witness ==
    /\ pc = "waiting"
    /\ after >= 1
    /\ all_items # <<>>
    /\ cache_file = File(<<Catalogue[1]>>)
    /\ Len(hist) = 1
    /\ FetchReturned(hist[1])
    /\ hist[1].cache_before = File(<<>>)
    /\ hist[1].result = <<Catalogue[1]>>

\* C9: the k-th consecutive rate-limit failure of a page request (k from 0)
\* waits min(INITIAL_WAIT * BACKOFF_FACTOR^k, MAX_WAIT).
C9_PageWaitGrows ==
    pc = "waiting" => last_wait = wait_with_backoff(consec_fails - 1)

\* C4: the update mutation meets at most MAX_RETRIES rate-limit failures;
\* before the MAX_RETRIES-th the loop goes on after the wait, after it the
\* operation ends with False, without a further mutation and without an
\* exception.
C4_UpdateAbandonedAtCeiling ==
    /\ [](mutation_fails <= MAX_RETRIES)
    /\ [](~u_raised)
    /\ []((mutation_fails = MAX_RETRIES /\ u_pc # "mutation_wait")
            => (u_pc = "done" /\ u_result = "False"))
    /\ [][(u_pc = "mutation_wait" /\ u_pc' # "mutation_wait")
            => IF mutation_fails < MAX_RETRIES
               THEN u_pc' = "status_field"
               ELSE u_pc' = "done" /\ mutations_sent' = mutations_sent]_vars
    /\ [][u_pc = "done" => (u_pc' = "done" /\ mutations_sent' = mutations_sent)]_vars

C4_Witness ==
    /\ u_pc = "done"
    /\ mutation_fails = MAX_RETRIES
    /\ mutations_sent = MAX_RETRIES
    /\ u_result = "False"

\* C8: every duration wait_with_backoff and exponential_backoff compute is
\* min(initial * factor^n, cap): never above the cap and never below the
\* duration computed for n - 1.
C8_BackoffMonotoneAndCapped ==
    /\ b_wait # -1 =>
          LET n == b_retry_count - 1
          IN  /\ b_wait <= MAX_WAIT
              /\ b_wait * Pow(BACKOFF_DEN, n)
                    = Min(INITIAL_WAIT * Pow(BACKOFF_NUM, n),
                          MAX_WAIT * Pow(BACKOFF_DEN, n))
    /\ b_prev_wait # -1 => b_prev_wait <= b_wait
    /\ b_mwait # -1 =>
          LET n == b_attempt - 1
          IN  /\ b_mwait <= max_wait_time
              /\ b_mwait = IF Pow(2, n) <= max_wait_time THEN Pow(2, n)
                           ELSE max_wait_time
    /\ b_mprev_wait # -1 => b_mprev_wait <= b_mwait

C8_Witness ==
    /\ b_prev_wait = 18225
    /\ b_wait = MAX_WAIT
    /\ b_mprev_wait = 65536
    /\ b_mwait = max_wait_time

\* C10: a migrate_issues run that ends normally has created a project item
\* for every JIRA issue that was not already migrated.
C10_NoIssueSkipped ==
    m_pc = "finished"
    => \A n \in 1..Len(issues) :
          ~is_issue_already_migrated(issues[n], existing_items)
          => issues[n] \in Range(created)

\* C11: an error of one issue that is not a rate-limit error does not end the
\* migrate_issues run: the run never exits on it.
C11_FatalErrorDoesNotAbortRun == m_pc # "exit1"

\* the errors the specification calls rate-limit errors: the text contains
\* "RATE_LIMITED" or "rate limit exceeded"
SpecRateLimitText(text) ==
    Contains_RATE_LIMITED(text) \/ LowerContains_rate_limit_exceeded(text)

\* C13: an upstream error whose text contains "RATE_LIMITED" or "rate limit
\* exceeded" is waited out by the page fetch, never raised from it.
C13_SameClassificationEverywhere ==
    \A k \in 1..Len(hist) :
        hist[k].error.exc = "TransportQueryError"
        => ~SpecRateLimitText(hist[k].error.text)

\* C14: retry_count of update_item_status is 0 right after every successful
\* upstream request (the Status field query of an iteration succeeded and the
\* mutation is about to be sent).
C14_CounterZeroAfterSuccess == u_pc = "mutation" => retry_count = 0

\* C17: the upstream serves every item on one page only; what a fetch
\* accumulates and returns holds no item twice, whatever rate-limit retries
\* happened in between.
C17_NoDuplicateItems ==
    /\ NoDup(all_items)
    /\ \A k \in 1..Len(hist) : FetchReturned(hist[k]) => NoDup(hist[k].result)

C17_Witness ==
    \E k \in 1..Len(hist) :
        /\ FetchReturned(hist[k])
        /\ hist[k].rate_limited
        /\ Len(pages) = 3
        /\ hist[k].result = <<Catalogue[1], Catalogue[6]>>

\* C18: the n-th consecutive rate-limit failure of migrate_issues (n from 0,
\* restarting after a successful creation) waits min(2^n, 86400) seconds;
\* attempt is the number of consecutive failures so far.
C18_MigrateWaitZeroIndexed ==
    m_pc = "waiting" => m_last_wait = Min(Pow(2, attempt - 1), max_wait_time)

\* C19: in get_status_field and update_item_status every backoff wait is
\* followed by another request attempt.
C19_WaitThenRetry ==
    [][(u_pc \in {"status_field_wait", "mutation_wait"} /\ u_pc' # u_pc)
          => u_pc' = "status_field"]_vars

\* C12: list_issues.main never prints the success line for an item whose
\* update_item_status call did not succeed (returned False, abandoned or not)
C12_SuccessReportedOnlyOnSuccess ==
    script = "list_issues"
    => \A k \in 1..Len(returns) : reports[k] = "success" => returns[k] = "True"

\* the number of calls that returned True
TrueReturns == Cardinality({k \in 1..Len(returns) : returns[k] = "True"})

\* C15: in both batch loops every item gets exactly one update_item_status
\* call, in list order, whatever the earlier calls returned, and at the end
\* of update_status.main success_count is the number of calls that returned
\* True
C15_OneCallPerItemInOrder ==
    /\ \A k \in 1..Len(calls) : calls[k] = k
    /\ bt_pc = "loop" => Len(calls) = t_i - 1
    /\ bt_pc = "in_update" => Len(calls) = t_i
    /\ bt_pc = "completed" =>
           /\ Len(calls) = n_targets
           /\ Len(returns) = n_targets
           /\ script = "update_status" => success_count = TrueReturns

C15_Witness ==
    /\ script = "update_status"
    /\ bt_pc = "completed"
    /\ n_targets = 2
    /\ returns = <<"False", "True">>
    /\ success_count = 1

\* C16: with update_targets.json missing or the API token unset the script
\* sends no request upstream and ends with a non-zero exit status
C16_ConfigErrorExitsBeforeRequests ==
    (~token_set \/ (script = "update_status" /\ ~targets_file))
    => /\ ~upstream_requests
       /\ bt_pc \notin {"completed", "error_printed"}

\* C20: when a page request of get_accessible_repositories fails with a
\* rate-limit error, the list returned still holds every repository that
\* the earlier pages had delivered
C20_RateLimitKeepsAccumulatedRepos ==
    (r_pc = "returned" /\ SpecRateLimitText(r_error.text))
    => Range(all_repos) \subseteq Range(r_result)

\* every repository the viewer and the viewer's organizations have upstream
AllUpstreamRepos ==
    {Repo(0, k) : k \in 1..viewer_total} \cup
    UNION {{Repo(j, k) : k \in 1..org_totals[j]} : j \in 1..Len(org_totals)}

\* C30: when get_accessible_repositories returns without error, its result
\* holds every repository of the viewer and of every organization
C30_ReturnsEveryRepository ==
    (r_pc = "returned" /\ r_error = NoError)
    => AllUpstreamRepos \subseteq Range(r_result)

\* C25: an issue is skipped as already migrated only when some existing item
\* was migrated from that very key
C25_SkipsOnlySameKey ==
    [][(m_pc = "loop" /\ m_pc' = "loop" /\ m_i' = m_i + 1 /\ created' = created)
          => \E n \in 1..Len(existing_items) :
                 existing_items[n] = MigratedItem(issues[m_i])]_vars

\* C26: no draft is created for an issue that already had a migrated item in
\* the project when the run started
C26_NoDuplicateOnRerun ==
    \A n \in 1..Len(created) :
        \A j \in 1..Len(project_items) :
            project_items[j] # MigratedItem(created[n])

\* the mapping of JIRA statuses as the documentation states it
DocumentedStatus(j) ==
    CASE j \in {"Open", "Reopened"} -> "Todo"
      [] j = "In Progress" -> "In Progress"
      [] j \in {"Done", "Resolved", "Closed"} -> "Done"
      [] OTHER -> "Todo"

\* C21: migrate.update_item_status maps Open and Reopened to Todo, In
\* Progress to In Progress, Done, Resolved and Closed to Done and every other
\* status to Todo; the mutation carries an option whose name is the mapped
\* status up to case, and no mutation is sent when no option has that name
C21_StatusMappingTotal ==
    s_pc \notin {"off", "called"} =>
        /\ github_status = DocumentedStatus(jira_status)
        /\ s_mutation # "none" =>
               /\ s_mutation \in Range(options)
               /\ lower(s_mutation) = lower(DocumentedStatus(jira_status))
        /\ s_mutation = "none" <=>
               \A n \in 1..Len(options) :
                   lower(options[n]) # lower(DocumentedStatus(jira_status))
        /\ s_pc = "warned_no_option" <=> s_mutation = "none"

C21_Witness ==
    /\ s_pc = "updated"
    /\ jira_status = "Resolved"
    /\ options = <<"Todo", "done">>
    /\ s_mutation = "done"

\* the pages requested so far start at 0, 100, 200, ... and none is asked
\* after the first empty or short one; what is returned is every matching
\* issue once, in query order
JiraPagesInOrder ==
    /\ \A k \in 1..Len(j_requests) : j_requests[k] = (k - 1) * JiraPage
    /\ Len(j_requests) <= (j_total \div JiraPage) + 1
    /\ j_pc = "returned" =>
           /\ all_issues = [k \in 1..j_total |-> k]
           /\ Len(j_requests) = (j_total \div JiraPage) + 1

\* C27: get_jira_issues terminates and returns every matching issue exactly
\* once, in query order, for every total including exact multiples of the
\* page size; it asks for the pages at offsets 0, 100, 200, ... and stops at
\* the first page that is empty or shorter than the page size
C27_JiraReturnsEveryIssueOnce ==
    []JiraPagesInOrder /\ <>(j_pc = "returned")

C27_Witness ==
    /\ j_pc = "returned"
    /\ j_total = 2 * JiraPage
    /\ Len(j_requests) = 3
    /\ Len(all_issues) = j_total

\* C22: no branch is deleted in simulation mode: cleanup_branches.py never
\* deletes, the 'cleanup' command deletes only when --execute was given
C22_NoDeletionInSimulation ==
    \A k \in 1..Len(c_log) :
        c_log[k].status = "deleted" =>
            /\ ~dry_run
            /\ c_script = "branch_cleaner"
            /\ execute

C22_Witness ==
    /\ c_pc = "done"
    /\ c_script = "branch_cleaner"
    /\ ~execute
    /\ \E k \in 1..Len(c_log) : c_log[k].status = "simulation"

\* C23: delete_old_branch deletes a branch only if its recorded last commit
\* date is strictly older than now minus days_old; a branch whose date is at
\* or after the cutoff is 'skipped' and no request is made for it
C23_DeletesOnlyOlderThanCutoff ==
    \A k \in 1..Len(c_log) :
        /\ c_log[k].status = "deleted" => c_log[k].last_commit_date < Now - days
        /\ c_log[k].last_commit_date >= Now - days =>
               /\ c_log[k].status = "skipped"
               /\ ~c_log[k].requested

C23_Witness ==
    /\ execute
    /\ Len(c_log) = 2
    /\ c_log[1].last_commit_date = Now - days
    /\ c_log[1].status = "skipped"
    /\ c_log[2].last_commit_date = Now - days - 1
    /\ c_log[2].status = "deleted"

\* C28: every branch the 'cleanup' command deletes has a name that starts
\* with 'devin/', whatever the input file holds
C28_DeletesOnlyDevinBranches ==
    \A k \in 1..Len(c_log) :
        c_log[k].status = "deleted" => startswith_devin(c_log[k].branch)

\* C29: a branch is stale when it is deleted: its last commit on GitHub at
\* that moment is older than the cutoff
C29_DeletedBranchIsStale ==
    \A k \in 1..Len(c_log) :
        c_log[k].status = "deleted" => c_log[k].actual < Now - days

\* C24: cleanup_old_devin_branches deletes only devin/ branches whose last
\* commit is older than the cutoff, and a deletion that fails is reported
\* without keeping the later branches of the repository, or the later
\* repositories, from being processed
C24_DevinCleanupGoesOn ==
    /\ \A k \in 1..Len(d_log) :
           d_log[k].status = "deleted" =>
               /\ startswith_devin(d_log[k].branch.name)
               /\ d_log[k].branch.commit_date < Now - DefaultDays
    /\ d_pc = "done" =>
           \A r \in 1..Len(d_repos) :
               r \notin d_listing_failed =>
                   \A b \in 1..Len(d_repos[r]) :
                       (/\ startswith_devin(d_repos[r][b].name)
                        /\ d_repos[r][b].commit_date < Now - DefaultDays)
                       => \E k \in 1..Len(d_log) :
                              /\ d_log[k].repo = r
                              /\ d_log[k].pos = b
                              /\ d_log[k].status \in {"deleted", "failed"}

C24_Witness ==
    /\ d_pc = "done"
    /\ Len(d_repos) = 2
    /\ Len(d_log) = 2
    /\ d_log[1].repo = 1
    /\ d_log[1].status = "failed"
    /\ d_log[2].repo = 2
    /\ d_log[2].status = "deleted"

====
